---- MODULE Spec2Model ----
(***************************************************************************)
(* ThoughtCompletion: the document-context analysis (analysis/             *)
(* document-context.ts, here src/unnamed/part_005), the document-type      *)
(* table (prompts/templates.ts), the type detector (prompts/               *)
(* type-detector.ts), the prompt builder (prompts/builder.ts, here         *)
(* src/unnamed/part_001) and the inline completion provider (providers/    *)
(* inline-completion.ts).                                                  *)
(*                                                                         *)
(* A JavaScript string is a sequence of one-character strings, so          *)
(* "# a" is <<"#", " ", "a">>.  A value that may be null is a sequence of  *)
(* length 0 (null) or 1 (the value).                                       *)
(***************************************************************************)
EXTENDS Integers, Sequences, FiniteSets, TLC

VARIABLES text, cursorLine, cursorColumn, customTypes, call, ret,
          docContext, provider, docVersion, others, requests, llm

vars == <<text, cursorLine, cursorColumn, customTypes, call, ret,
          docContext, provider, docVersion, others, requests, llm>>

\* The state of the prompt builder's caller, of the completion provider and
\* of the completion capability.
providerVars == <<docContext, provider, docVersion, others, requests, llm>>

Null == <<>>

Some(v) == <<v>>

Min(a, b) == IF a < b THEN a ELSE b

Max(a, b) == IF a > b THEN a ELSE b

SetMax(S) == CHOOSE x \in S : \A y \in S : y <= x

(***************************************************************************)
(* Character classes of the JavaScript regular expressions.  The Unicode   *)
(* members of \s and of the line terminators (U+00A0, U+2028, U+2029, ...) *)
(* have no TLA+ literal; "\r" stands for the line terminators that         *)
(* split('\n') leaves inside a line.                                       *)
(***************************************************************************)
WhiteSpace == {" ", "\t", "\n", "\r", "\f"}

LineTerminators == {"\n", "\r"}

Digits == {"0", "1", "2", "3", "4", "5", "6", "7", "8", "9"}

InClass(c, cls) ==
    CASE cls = "#" -> c = "#"
      [] cls = "[-*+]" -> c \in {"-", "*", "+"}
      [] cls = "\\." -> c = "."
      [] cls = "\\d" -> c \in Digits
      [] cls = "\\s" -> c \in WhiteSpace
      [] cls = "." -> c \notin LineTerminators

(***************************************************************************)
(* A pattern ^ a1 a2 ... an $ is the sequence of its atoms; an atom is a   *)
(* character class with a greedy quantifier {min,max} (max unbounded when  *)
(* bounded is FALSE).  groups[k] is the atom that capture group k wraps.   *)
(***************************************************************************)
One(cls) == [cls |-> cls, min |-> 1, max |-> 1, bounded |-> TRUE]

Between(cls, lo, hi) == [cls |-> cls, min |-> lo, max |-> hi, bounded |-> TRUE]

OneOrMore(cls) == [cls |-> cls, min |-> 1, max |-> 1, bounded |-> FALSE]

ZeroOrMore(cls) == [cls |-> cls, min |-> 0, max |-> 0, bounded |-> FALSE]

\* The number of consecutive characters of class cls in s from position pos on.
RunLength(cls, s, pos) ==
    SetMax({n \in 0..(Len(s) - pos + 1) :
               \A j \in 0..(n - 1) : InClass(s[pos + j], cls)})

(***************************************************************************)
(* The backtracking match of atoms i.. of a pattern against s from pos,    *)
(* anchored at the end of s: the number of characters each atom takes, in  *)
(* the first successful alternative of the greedy search (each atom takes  *)
(* as many characters as lets the rest match), or Null.                    *)
(***************************************************************************)
RECURSIVE MatchFrom(_, _, _, _)
MatchFrom(atoms, i, s, pos) ==
    IF i > Len(atoms)
    THEN IF pos = Len(s) + 1 THEN Some(<<>>) ELSE Null
    ELSE LET a == atoms[i]
             run == RunLength(a.cls, s, pos)
             hi == IF a.bounded THEN Min(a.max, run) ELSE run
             ok == {n \in a.min..hi : MatchFrom(atoms, i + 1, s, pos + n) # Null}
         IN  IF ok = {}
             THEN Null
             ELSE LET n == SetMax(ok)
                  IN  Some(<<n>> \o MatchFrom(atoms, i + 1, s, pos + n)[1])

\* The characters of s before atom i of a match that took lens.
RECURSIVE Offset(_, _)
Offset(lens, i) == IF i <= 1 THEN 0 ELSE lens[i - 1] + Offset(lens, i - 1)

\* The capture groups from group k on, of a match that took lens.
RECURSIVE Groups(_, _, _, _)
Groups(s, groups, lens, k) ==
    IF k > Len(groups) THEN <<>>
    ELSE <<SubSeq(s, Offset(lens, groups[k]) + 1,
                  Offset(lens, groups[k]) + lens[groups[k]])>>
             \o Groups(s, groups, lens, k + 1)

\* String.prototype.match without the g flag: Null, or the capture groups.
Match(s, pattern) ==
    LET m == MatchFrom(pattern.atoms, 1, s, 1)
    IN  IF m = Null THEN Null ELSE Some(Groups(s, pattern.groups, m[1], 1))

\* RegExp.prototype.test
Test(pattern, s) == Match(s, pattern) # Null

PATTERNS ==
    [header |-> [atoms |-> <<Between("#", 1, 6), OneOrMore("\\s"), OneOrMore(".")>>,
                 groups |-> <<1, 3>>],
     bullet |-> [atoms |-> <<ZeroOrMore("\\s"), One("[-*+]"), OneOrMore("\\s"),
                             ZeroOrMore(".")>>,
                 groups |-> <<1, 4>>],
     numbered |-> [atoms |-> <<ZeroOrMore("\\s"), OneOrMore("\\d"), One("\\."),
                               OneOrMore("\\s"), ZeroOrMore(".")>>,
                   groups |-> <<1, 2, 5>>],
     emptyLine |-> [atoms |-> <<ZeroOrMore("\\s")>>, groups |-> <<>>]]

(***************************************************************************)
(* String and Array primitives.                                            *)
(***************************************************************************)
\* The elements of a set of integers in increasing order.
RECURSIVE Ascending(_)
Ascending(S) ==
    IF S = {} THEN <<>>
    ELSE LET least == CHOOSE x \in S : \A y \in S : x <= y
         IN  <<least>> \o Ascending(S \ {least})

\* The pieces of s between consecutive cuts, from cut k on.
RECURSIVE Pieces(_, _, _)
Pieces(s, cuts, k) ==
    IF k >= Len(cuts) THEN <<>>
    ELSE <<SubSeq(s, cuts[k] + 1, cuts[k + 1] - 1)>> \o Pieces(s, cuts, k + 1)

\* String.prototype.split('\n'): the pieces between the newlines, at least one.
Split(s) ==
    Pieces(s, <<0>> \o Ascending({i \in 1..Len(s) : s[i] = "\n"}) \o <<Len(s) + 1>>, 1)

\* Array.prototype.join('\n')
RECURSIVE Join(_)
Join(ls) ==
    IF Len(ls) = 0 THEN <<>>
    ELSE IF Len(ls) = 1 THEN ls[1]
    ELSE ls[1] \o <<"\n">> \o Join(Tail(ls))

\* slice(start, end) of a string or an array: a negative index counts from
\* the end, and both are clamped to 0..length.
RelIndex(k, n) == IF k < 0 THEN Max(n + k, 0) ELSE Min(k, n)

Slice(s, start, end) ==
    SubSeq(s, RelIndex(start, Len(s)) + 1, RelIndex(end, Len(s)))

\* slice(0, -start): the head where slice(start) keeps the tail.
SliceHead(s, start) == Slice(s, 0, 0 - start)

\* slice(start) with no end
SliceFrom(s, start) == Slice(s, start, Len(s))

\* String.prototype.trim: from the first to the last character that is not
\* white space.
Trim(s) ==
    IF \A i \in 1..Len(s) : s[i] \in WhiteSpace
    THEN <<>>
    ELSE SubSeq(s,
                CHOOSE i \in 1..Len(s) :
                    s[i] \notin WhiteSpace /\ \A j \in 1..(i - 1) : s[j] \in WhiteSpace,
                CHOOSE i \in 1..Len(s) :
                    s[i] \notin WhiteSpace /\ \A j \in (i + 1)..Len(s) : s[j] \in WhiteSpace)

\* An index past the end read as the last line.
LineAtOrLast(lines, i) ==
    IF i >= 0 /\ i < Len(lines) THEN lines[i + 1]
    ELSE IF i >= Len(lines) /\ Len(lines) > 0 THEN lines[Len(lines)]
    ELSE <<>>

\* lines[i] ?? '' with a zero-based index
LineAt(lines, i) == IF i >= 0 /\ i < Len(lines) THEN lines[i + 1] ELSE <<>>

\* Math.ceil(n / 2) in place of Math.floor(n / 2).
Ceil2(n) == (n + 1) \div 2

\* Math.floor(n / 2) for n >= 0
Floor2(n) == n \div 2

(***************************************************************************)
(* extractStructure: the node of one line (Null for a blank line), and the *)
(* loop over the lines.  line is the zero-based index i of the loop.       *)
(***************************************************************************)
\* NodeOfLine without the test for a blank line.
NodeOfLineNoBlankTest(line, i) ==
    LET headerMatch == Match(line, PATTERNS.header)
        bulletMatch == Match(line, PATTERNS.bullet)
        numberedMatch == Match(line, PATTERNS.numbered)
    IN  IF headerMatch # Null
        THEN Some([type |-> "header", level |-> Len(headerMatch[1][1]),
                   content |-> headerMatch[1][2], line |-> i])
        ELSE IF bulletMatch # Null
        THEN Some([type |-> "bullet",
                   level |-> (Len(bulletMatch[1][1]) \div 2) + 1,
                   content |-> bulletMatch[1][2], line |-> i])
        ELSE IF numberedMatch # Null
        THEN Some([type |-> "numbered",
                   level |-> (Len(numberedMatch[1][1]) \div 2) + 1,
                   content |-> numberedMatch[1][3], line |-> i])
        ELSE Some([type |-> "paragraph", level |-> 0,
                   content |-> Trim(line), line |-> i])

NodeOfLine(line, i) ==
    LET headerMatch == Match(line, PATTERNS.header)
        bulletMatch == Match(line, PATTERNS.bullet)
        numberedMatch == Match(line, PATTERNS.numbered)
    IN  IF headerMatch # Null
        THEN Some([type |-> "header", level |-> Len(headerMatch[1][1]),
                   content |-> headerMatch[1][2], line |-> i])
        ELSE IF bulletMatch # Null
        THEN Some([type |-> "bullet",
                   level |-> Floor2(Len(bulletMatch[1][1])) + 1,
                   content |-> bulletMatch[1][2], line |-> i])
        ELSE IF numberedMatch # Null
        THEN Some([type |-> "numbered",
                   level |-> Floor2(Len(numberedMatch[1][1])) + 1,
                   content |-> numberedMatch[1][3], line |-> i])
        ELSE IF ~Test(PATTERNS.emptyLine, line)
        THEN Some([type |-> "paragraph", level |-> 0,
                   content |-> Trim(line), line |-> i])
        ELSE Null

RECURSIVE ExtractFrom(_, _)
ExtractFrom(lines, i) ==
    IF i >= Len(lines) THEN <<>>
    ELSE NodeOfLine(lines[i + 1], i) \o ExtractFrom(lines, i + 1)

extractStructure(t) == ExtractFrom(Split(t), 0)

\* findCurrentSection's loop without the break at the cursor line.
RECURSIVE FindSectionNoBreak(_, _, _, _)
FindSectionNoBreak(structure, k, line, currentHeader) ==
    IF k > Len(structure) THEN currentHeader
    ELSE FindSectionNoBreak(structure, k + 1, line,
                            IF structure[k].type = "header"
                            THEN Some(structure[k].content)
                            ELSE currentHeader)

\* The loop of findCurrentSection from node k on, currentHeader so far.
RECURSIVE FindSectionFrom(_, _, _, _)
FindSectionFrom(structure, k, line, currentHeader) ==
    IF k > Len(structure) THEN currentHeader
    ELSE IF structure[k].line > line THEN currentHeader
    ELSE FindSectionFrom(structure, k + 1, line,
                         IF structure[k].type = "header"
                         THEN Some(structure[k].content)
                         ELSE currentHeader)

\* findCurrentSection keeping the first header it meets, not the last.
RECURSIVE FindSectionFirst(_, _, _, _)
FindSectionFirst(structure, k, line, currentHeader) ==
    IF k > Len(structure) THEN currentHeader
    ELSE IF structure[k].line > line THEN currentHeader
    ELSE FindSectionFirst(structure, k + 1, line,
                          IF structure[k].type = "header" /\ currentHeader = Null
                          THEN Some(structure[k].content)
                          ELSE currentHeader)

findCurrentSectionFirst(structure, line) == FindSectionFirst(structure, 1, line, Null)

findCurrentSection(structure, line) == FindSectionFrom(structure, 1, line, Null)

\* detectCursorPosition taking every bullet and numbered line for structure.
detectCursorPositionAnyItem(lines, line, structure) ==
    LET l == LineAt(lines, line)
    IN  IF Test(PATTERNS.emptyLine, l) THEN "structure"
        ELSE IF Test(PATTERNS.header, l) THEN "structure"
        ELSE IF Test(PATTERNS.bullet, l) THEN "structure"
        ELSE IF Test(PATTERNS.numbered, l) THEN "structure"
        ELSE "content"

\* detectCursorPosition without the two tests for an empty list item.
detectCursorPositionNoEmptyItems(lines, line, structure) ==
    LET l == LineAt(lines, line)
    IN  IF Test(PATTERNS.emptyLine, l) THEN "structure"
        ELSE IF Test(PATTERNS.header, l) THEN "structure"
        ELSE "content"

detectCursorPosition(lines, line, structure) ==
    LET l == LineAt(lines, line)
        bulletMatch == Match(l, PATTERNS.bullet)
        numberedMatch == Match(l, PATTERNS.numbered)
    IN  IF Test(PATTERNS.emptyLine, l) THEN "structure"
        ELSE IF Test(PATTERNS.header, l) THEN "structure"
        ELSE IF bulletMatch # Null /\ Trim(bulletMatch[1][2]) = <<>> THEN "structure"
        ELSE IF numberedMatch # Null /\ Trim(numberedMatch[1][3]) = <<>> THEN "structure"
        ELSE "content"

\* The loop of calculateDepth from node k on, depth so far.
RECURSIVE DepthFrom(_, _, _, _)
DepthFrom(structure, k, line, depth) ==
    IF k > Len(structure) THEN depth
    ELSE IF structure[k].line > line THEN depth
    ELSE DepthFrom(structure, k + 1, line,
                   IF structure[k].type \in {"header", "bullet", "numbered"}
                   THEN structure[k].level
                   ELSE depth)

calculateDepth(structure, line) == DepthFrom(structure, 1, line, 0)

\* structure.filter(n => n.line <= cursorLine)
RECURSIVE NodesUpTo(_, _)
NodesUpTo(structure, line) ==
    IF structure = <<>> THEN <<>>
    ELSE (IF Head(structure).line <= line THEN <<Head(structure)>> ELSE <<>>)
             \o NodesUpTo(Tail(structure), line)

\* The "before" window starting one line higher.
LinesBeforeFrom21(lines, line, column) ==
    LET linesBefore == Slice(lines, Max(0, line - 21), line + 1)
    IN  IF Len(linesBefore) > 0
        THEN [linesBefore EXCEPT
                 ![Len(linesBefore)] = Slice(linesBefore[Len(linesBefore)], 0, column)]
        ELSE linesBefore

\* The "before" window: the lines sliced, the last one cut at the cursor column.
LinesBefore(lines, line, column) ==
    LET linesBefore == Slice(lines, Max(0, line - 20), line + 1)
    IN  IF Len(linesBefore) > 0
        THEN [linesBefore EXCEPT
                 ![Len(linesBefore)] = Slice(linesBefore[Len(linesBefore)], 0, column)]
        ELSE linesBefore

LinesAfter(lines, line) == Slice(lines, line + 1, line + 21)

analyzeDocument(t, line, column, documentType) ==
    LET lines == Split(t)
        structure == extractStructure(t)
    IN  [documentType |-> documentType,
         currentSection |-> findCurrentSection(structure, line),
         cursorPosition |-> detectCursorPosition(lines, line, structure),
         precedingStructure |-> NodesUpTo(structure, line),
         currentDepth |-> calculateDepth(structure, line),
         textBeforeCursor |-> SliceFrom(Join(LinesBefore(lines, line, column)), -1000),
         textAfterCursor |-> Slice(Join(LinesAfter(lines, line)), 0, 1000),
         currentLine |-> LineAt(lines, line)]

(***************************************************************************)
(* prompts/templates.ts: the document types.                               *)
(***************************************************************************)
DEFAULT_DOCUMENT_TYPES ==
    <<
      [name |-> "negotiation",
       detectionPrompt |->
           "Document discusses parties, positions, interests, BATNA, alternatives, deal terms, concessions, or negotiation strategy",
       workingPrompt |->
           "Enforce the \"Harvard Negotiation Project\" framework. Focus on: Interests vs Positions, Options for Mutual Gain, Objective Criteria, and BATNA/WATNA. Ask: \"What is their underlying interest?\" \"What is your walk-away point?\""],
      [name |-> "brainstorm",
       detectionPrompt |->
           "Document contains idea generation, creative exploration, free-form thoughts, possibilities, or \"what if\" scenarios",
       workingPrompt |->
           "Use \"SCAMPER\" (Substitute, Combine, Adapt, Modify, Put to another use, Eliminate, Reverse) or \"First Principles\" thinking. Encourage diverse angles. Ask: \"What if we inverted the assumption?\" \"What is the fundamental truth here?\""],
      [name |-> "project-evaluation",
       detectionPrompt |->
           "Document evaluates a project with criteria, metrics, risks, recommendations, pros/cons, or assessment of outcomes",
       workingPrompt |->
           "Use rigorous evaluation frameworks. For strategy: SWOT or PEEST. For execution: \"Keep/Stop/Start\" or ROI/Risk matrix. Ask for specific evidence and quantitative metrics. \"What is the data source?\" \"What are the second-order effects?\""],
      [name |-> "meeting-notes",
       detectionPrompt |->
           "Document contains agenda items, attendees, discussion points, decisions made, or action items",
       workingPrompt |->
           "Focus on Action and Accountability. Ensure every decision has an owner and deadline. Distinguish between \"Discussion\", \"Decision\", and \"Action\". Ask: \"Who owns this?\" \"by When?\" \"What is the definition of done?\""],
      [name |-> "research-notes",
       detectionPrompt |->
           "Document contains research findings, sources, quotes, hypotheses, or analysis of information",
       workingPrompt |->
           "Enforce \"Pyramid Principle\" or scientific method. Hypothesis -> Evidence -> Conclusion. Require source citation. Ask: \"What disproves this hypothesis?\" \"Is this correlation or causation?\""],
      [name |-> "decision-document",
       detectionPrompt |->
           "Document analyzes a decision with options, criteria, trade-offs, or recommendations",
       workingPrompt |->
           "Enforce \"Decision Quality\" (DQ) framework. 1. Helpful Frame 2. Creative Alternatives 3. Meaningful Information 4. Clear Values 5. Sound Reasoning 6. Commitment to Action. Ask: \"What options did we satisfy?\""]
    >>

Names(types) == {types[k].name : k \in 1..Len(types)}

\* getAllDocumentTypes keeping every default.
getAllDocumentTypesUnfiltered(custom) == DEFAULT_DOCUMENT_TYPES \o custom

\* getAllDocumentTypes with the custom types before the defaults kept.
getAllDocumentTypesCustomFirst(custom) ==
    LET customNames == Names(custom)
    IN  custom \o
        SelectSeq(DEFAULT_DOCUMENT_TYPES, LAMBDA t : t.name \notin customNames)

getAllDocumentTypes(custom) ==
    LET customNames == Names(custom)
        filteredDefaults ==
            SelectSeq(DEFAULT_DOCUMENT_TYPES, LAMBDA t : t.name \notin customNames)
    IN  filteredDefaults \o custom

(***************************************************************************)
(* Inputs.                                                                 *)
(***************************************************************************)
MaxIndent == 4

MaxHashes == 7

MaxTail == 3

MaxDocLines == 3

WindowDocLines == 43

LongLine == 50

MaxCustom == 3

RECURSIVE Repeat(_, _)
Repeat(c, n) == IF n <= 0 THEN <<>> ELSE <<c>> \o Repeat(c, n - 1)

RECURSIVE StringsUpTo(_, _)
StringsUpTo(chars, n) ==
    IF n <= 0 THEN {<<>>}
    ELSE LET shorter == StringsUpTo(chars, n - 1)
         IN  shorter \cup {s \o <<c>> : s \in shorter, c \in chars}

Indents == {Repeat(" ", n) : n \in 0..MaxIndent}

Markers ==
    {<<>>, <<"-">>, <<"*">>, <<"+">>, <<"1">>, <<"1", ".">>, <<"1", "2", ".">>}
        \cup {Repeat("#", n) : n \in 1..MaxHashes}

Tails == StringsUpTo({" ", "\r", "a"}, MaxTail)

\* One-line documents: an indent, a marker, and what follows it.
LineInputs == {i \o m \o t : i \in Indents, m \in Markers, t \in Tails}

\* Lines of the documents of several lines: blank, headers, list items, prose.
SampleLines ==
    {<<>>, <<" ">>, <<"#", " ", "a">>, <<"#", "#", " ", "b">>, <<"-", " ">>,
     <<" ", " ", "1", ".", " ", "a">>, <<"b", " ">>}

DocInputs == {Join(ls) : ls \in StringsUpTo(SampleLines, MaxDocLines)}

\* A document of n lines of width w: line i repeats one letter, "a", "b", "c"
\* in turn.
RECURSIVE UniformLines(_, _, _)
UniformLines(i, n, w) ==
    IF i >= n THEN <<>>
    ELSE <<Repeat(<<"a", "b", "c">>[(i % 3) + 1], w)>> \o UniformLines(i + 1, n, w)

Widths == {0, 1, LongLine}

\* Documents shorter than either window, and one longer than both together.
DocSizes == {1, 2, 3, WindowDocLines}

NoCall == [op |-> "none"]

\* No provider is constructed and no completion was requested.
NoProvider ==
    /\ docContext = <<>>
    /\ provider = <<>>
    /\ docVersion = 0
    /\ others = <<>>
    /\ requests = <<>>
    /\ llm = [calls |-> 0]

InitLine ==
    /\ text \in LineInputs
    /\ cursorLine = 0
    /\ cursorColumn = 0
    /\ customTypes = <<>>
    /\ call = NoCall
    /\ ret = Null
    /\ NoProvider

InitDoc ==
    /\ text \in DocInputs
    /\ cursorLine \in 0..MaxDocLines
    /\ cursorColumn = 0
    /\ customTypes = <<>>
    /\ call = NoCall
    /\ ret = Null
    /\ NoProvider

InitWindow ==
    /\ \E n \in DocSizes, w \in Widths :
          /\ text = Join(UniformLines(0, n, w))
          /\ cursorLine \in 0..n \cup {n + 21}
          /\ cursorColumn \in {0, 1, w + 1}
    /\ customTypes = <<>>
    /\ call = NoCall
    /\ ret = Null
    /\ NoProvider

\* One-line documents and documents of several lines, the cursor on the
\* first or the second line.
InitCursor ==
    /\ text \in LineInputs \cup DocInputs
    /\ cursorLine \in 0..1
    /\ cursorColumn = 0
    /\ customTypes = <<>>
    /\ call = NoCall
    /\ ret = Null
    /\ NoProvider

CustomNames == {"negotiation", "decision-document", "custom"}

CustomPool ==
    {[name |-> n, detectionPrompt |-> "d", workingPrompt |-> w] :
        n \in CustomNames, w \in {"w1", "w2"}}

InitTypes ==
    /\ text = <<>>
    /\ cursorLine = 0
    /\ cursorColumn = 0
    /\ customTypes \in StringsUpTo(CustomPool, MaxCustom)
    /\ call = NoCall
    /\ ret = Null
    /\ NoProvider

(***************************************************************************)
(* Operations: one call on the inputs drawn, which leaves its arguments in  *)
(* call and its result in ret.                                             *)
(***************************************************************************)
ExtractStructure ==
    /\ call = NoCall
    /\ call' = [op |-> "extractStructure"]
    /\ ret' = extractStructure(text)
    /\ UNCHANGED <<text, cursorLine, cursorColumn, customTypes>>
    /\ UNCHANGED providerVars

\* analyzeDocument passes the extracted structure, the tests an empty one.
DetectCursorPosition ==
    \E structure \in {<<>>, extractStructure(text)} :
        /\ call = NoCall
        /\ call' = [op |-> "detectCursorPosition", structure |-> structure]
        /\ ret' = detectCursorPosition(Split(text), cursorLine, structure)
        /\ UNCHANGED <<text, cursorLine, cursorColumn, customTypes>>
        /\ UNCHANGED providerVars

FindCurrentSection ==
    /\ call = NoCall
    /\ call' = [op |-> "findCurrentSection"]
    /\ ret' = findCurrentSection(extractStructure(text), cursorLine)
    /\ UNCHANGED <<text, cursorLine, cursorColumn, customTypes>>
    /\ UNCHANGED providerVars

AnalyzeDocument ==
    /\ call = NoCall
    /\ call' = [op |-> "analyzeDocument"]
    /\ ret' = analyzeDocument(text, cursorLine, cursorColumn, Null)
    /\ UNCHANGED <<text, cursorLine, cursorColumn, customTypes>>
    /\ UNCHANGED providerVars

GetAllDocumentTypes ==
    /\ call = NoCall
    /\ call' = [op |-> "getAllDocumentTypes"]
    /\ ret' = getAllDocumentTypes(customTypes)
    /\ UNCHANGED <<text, cursorLine, cursorColumn, customTypes>>
    /\ UNCHANGED providerVars

NextLine == ExtractStructure \/ DetectCursorPosition

SpecLine == InitLine /\ [][NextLine]_vars

NextDoc == ExtractStructure \/ FindCurrentSection

SpecDoc == InitDoc /\ [][NextDoc]_vars

NextWindow == AnalyzeDocument

SpecWindow == InitWindow /\ [][NextWindow]_vars

NextCursor == AnalyzeDocument

SpecCursor == InitCursor /\ [][NextCursor]_vars

NextTypes == GetAllDocumentTypes

SpecTypes == InitTypes /\ [][NextTypes]_vars

(***************************************************************************)
(* Properties.                                                             *)
(***************************************************************************)
IsBlank(l) == \A i \in 1..Len(l) : l[i] \in WhiteSpace

\* The number of leading characters of l that are in the set chars.
Leading(l, chars) ==
    CHOOSE n \in 0..Len(l) :
        /\ \A i \in 1..n : l[i] \in chars
        /\ n < Len(l) => l[n + 1] \notin chars

Called(op) == call.op = op

\* C1: extractStructure emits one node for each non-blank line and none for
\* a blank line, in strictly increasing line order, so it emits no more
\* nodes than there are non-blank lines.
C1_OneNodePerNonBlankLine ==
    Called("extractStructure") =>
        LET lines == Split(text)
            nonBlank == {i \in 0..(Len(lines) - 1) : ~IsBlank(lines[i + 1])}
        IN  /\ Len(ret) <= Cardinality(nonBlank)
            /\ \A k \in 1..(Len(ret) - 1) : ret[k].line < ret[k + 1].line
            /\ {ret[k].line : k \in 1..Len(ret)} = nonBlank

C1_Witness ==
    /\ Called("extractStructure")
    /\ Len(ret) >= 2
    /\ \E i \in 1..Len(Split(text)) :
          /\ i < Len(Split(text))
          /\ IsBlank(Split(text)[i])
          /\ Split(text)[i] # <<>>

\* The shapes of a cursor line that detectCursorPosition takes for structure.
HeaderShape(l) ==
    \E n \in 1..6 : \E k \in 1..Len(l) :
        /\ n + k < Len(l)
        /\ \A i \in 1..n : l[i] = "#"
        /\ \A i \in (n + 1)..(n + k) : l[i] \in WhiteSpace
        /\ \A i \in (n + k + 1)..Len(l) : l[i] \notin LineTerminators

EmptyBulletShape(l) ==
    LET indent == Leading(l, WhiteSpace)
    IN  /\ Len(l) >= indent + 2
        /\ l[indent + 1] \in {"-", "*", "+"}
        /\ \A i \in (indent + 2)..Len(l) : l[i] \in WhiteSpace

EmptyNumberedShape(l) ==
    LET indent == Leading(l, WhiteSpace)
        digits == Leading(SubSeq(l, indent + 1, Len(l)), Digits)
    IN  /\ digits >= 1
        /\ Len(l) >= indent + digits + 2
        /\ l[indent + digits + 1] = "."
        /\ \A i \in (indent + digits + 2)..Len(l) : l[i] \in WhiteSpace

\* C2: detectCursorPosition gives "structure" for a blank cursor line, a
\* header line, a bullet or a numbered line with nothing but white space
\* after its marker, and "content" for every other line, whatever structure
\* argument it is given.
C2_CursorPositionByLine ==
    Called("detectCursorPosition") =>
        LET l == LineAt(Split(text), cursorLine)
        IN  ret = IF \/ IsBlank(l)
                     \/ HeaderShape(l)
                     \/ EmptyBulletShape(l)
                     \/ EmptyNumberedShape(l)
                  THEN "structure"
                  ELSE "content"

C2_Witness ==
    /\ Called("detectCursorPosition")
    /\ call.structure # <<>>
    /\ call.structure[1].type = "bullet"
    /\ call.structure[1].content # <<>>
    /\ ret = "content"

Headers(structure) ==
    {k \in 1..Len(structure) : structure[k].type = "header"}

\* C3, as claimed: a section that findCurrentSection returns is the content
\* of a header strictly above the cursor line.
C3_HeaderStrictlyBeforeCursor ==
    Called("findCurrentSection") /\ ret # Null =>
        LET structure == extractStructure(text)
        IN  \E k \in Headers(structure) :
                /\ structure[k].content = ret[1]
                /\ structure[k].line < cursorLine

\* C3, amended: a section that findCurrentSection returns is the content of
\* a header at or above the cursor line, never of one below it.
C3_HeaderNotAfterCursor ==
    Called("findCurrentSection") /\ ret # Null =>
        LET structure == extractStructure(text)
        IN  \E k \in Headers(structure) :
                /\ structure[k].content = ret[1]
                /\ structure[k].line <= cursorLine

C3_Witness ==
    /\ Called("findCurrentSection")
    /\ ret # Null
    /\ LET structure == extractStructure(text)
       IN  /\ \E k \in Headers(structure) :
                 structure[k].line = cursorLine /\ structure[k].content = ret[1]
           /\ \E k \in Headers(structure) :
                 structure[k].line > cursorLine /\ structure[k].content # ret[1]

\* C4: findCurrentSection returns the content of the last header at or above
\* the cursor line, and null exactly when there is no such header; the
\* other nodes do not matter.
C4_LastHeaderUpToCursor ==
    Called("findCurrentSection") =>
        LET structure == extractStructure(text)
            upTo == {k \in Headers(structure) : structure[k].line <= cursorLine}
        IN  IF upTo = {}
            THEN ret = Null
            ELSE ret = Some(structure[SetMax(upTo)].content)

C4_Witness ==
    /\ Called("findCurrentSection")
    /\ ret # Null
    /\ LET structure == extractStructure(text)
       IN  /\ \E j, k \in Headers(structure) :
                 /\ j < k
                 /\ structure[k].line < cursorLine
                 /\ structure[j].content # structure[k].content
           /\ \E k \in 1..Len(structure) :
                 structure[k].type # "header" /\ structure[k].line = cursorLine

IsSuffix(a, b) ==
    Len(a) <= Len(b) /\ SubSeq(b, Len(b) - Len(a) + 1, Len(b)) = a

IsPrefix(a, b) == Len(a) <= Len(b) /\ SubSeq(b, 1, Len(a)) = a

CountNewlines(s) == Cardinality({i \in 1..Len(s) : s[i] = "\n"})

\* Lines lo..hi of the document (zero-based, hi >= lo - 1).
Window(lines, lo, hi) == SubSeq(lines, lo + 1, hi + 1)

\* ls with its last line cut to its first p characters.
CutLast(ls, p) == [ls EXCEPT ![Len(ls)] = SubSeq(ls[Len(ls)], 1, p)]

\* textBeforeCursor holds at most above + 1 lines and is the tail of the
\* joined lines from above lines over the cursor line down to it, the last
\* of them cut somewhere.
BuiltFromLinesAbove(above) ==
    LET lines == Split(text)
        lo == Max(0, cursorLine - above)
        hi == Min(cursorLine, Len(lines) - 1)
        w == Window(lines, lo, hi)
    IN  /\ CountNewlines(ret.textBeforeCursor) <= above
        /\ IF hi < lo
           THEN ret.textBeforeCursor = <<>>
           ELSE \E p \in 0..Len(w[Len(w)]) :
                    IsSuffix(ret.textBeforeCursor, Join(CutLast(w, p)))

\* C5, as claimed: textBeforeCursor is built from at most 20 lines, the
\* cursor line among them: nothing of a line more than 19 lines above the
\* cursor line is in it.
C5_BeforeWindowOf20Lines ==
    Called("analyzeDocument") => BuiltFromLinesAbove(19)

\* C5, amended: textBeforeCursor is built from at most 21 lines, the cursor
\* line and the 20 lines above it: nothing of a line more than 20 lines
\* above the cursor line is in it.
C5_BeforeWindowOf21Lines ==
    Called("analyzeDocument") => BuiltFromLinesAbove(20)

C5_Witness ==
    /\ Called("analyzeDocument")
    /\ cursorLine > 20
    /\ cursorLine < Len(Split(text))
    /\ CountNewlines(ret.textBeforeCursor) = 20

\* C6: textBeforeCursor has at most 1000 characters and is a tail of the
\* joined "before" window (its last line cut at the cursor column);
\* textAfterCursor has at most 1000 characters and is a head of the joined
\* lines, up to 20, that follow the cursor line.
C6_WindowsCappedAt1000 ==
    Called("analyzeDocument") =>
        LET lines == Split(text)
            lo == Max(0, cursorLine - 20)
            hi == Min(cursorLine, Len(lines) - 1)
            w == Window(lines, lo, hi)
            before == IF hi < lo THEN <<>>
                      ELSE Join(CutLast(w, Min(cursorColumn, Len(w[Len(w)]))))
            after == Join(Window(lines, cursorLine + 1,
                                 Max(cursorLine, Min(cursorLine + 20, Len(lines) - 1))))
        IN  /\ Len(ret.textBeforeCursor) <= 1000
            /\ IsSuffix(ret.textBeforeCursor, before)
            /\ Len(ret.textAfterCursor) <= 1000
            /\ IsPrefix(ret.textAfterCursor, after)

C6_Witness ==
    /\ Called("analyzeDocument")
    /\ Len(ret.textBeforeCursor) = 1000
    /\ Len(ret.textAfterCursor) = 1000
    /\ Len(text) > 2000

NodeType == IF ret = <<>> THEN "none" ELSE ret[1].type

\* C7, as claimed, for a document of one line: the line is a header only
\* with 1 to 6 leading "#", white space and more text after them; otherwise
\* a bullet when white space, one of - * + and white space start it;
\* otherwise numbered when white space, digits, "." and white space start
\* it; otherwise a paragraph when it is not blank; a blank line is nothing.
C7_ClassifiedByShape ==
    Called("extractStructure") =>
        LET l == text
            hashes == Leading(l, {"#"})
            indent == Leading(l, WhiteSpace)
            digits == Leading(SubSeq(l, indent + 1, Len(l)), Digits)
            bulletShape ==
                /\ Len(l) >= indent + 2
                /\ l[indent + 1] \in {"-", "*", "+"}
                /\ l[indent + 2] \in WhiteSpace
            numberedShape ==
                /\ digits >= 1
                /\ Len(l) >= indent + digits + 2
                /\ l[indent + digits + 1] = "."
                /\ l[indent + digits + 2] \in WhiteSpace
        IN  /\ Len(ret) <= 1
            /\ NodeType = "header" =>
                   /\ hashes \in 1..6
                   /\ Len(l) > hashes + 1
                   /\ l[hashes + 1] \in WhiteSpace
            /\ NodeType # "header" /\ bulletShape => NodeType = "bullet"
            /\ NodeType \notin {"header", "bullet"} /\ numberedShape =>
                   NodeType = "numbered"
            /\ NodeType \notin {"header", "bullet", "numbered"} =>
                   NodeType = IF IsBlank(l) THEN "none" ELSE "paragraph"

\* C8: a header's level is the number of its "#", 1 to 6; a bullet's or a
\* numbered item's level is floor(indent / 2) + 1 with indent the number of
\* leading white space characters, at least 1; a paragraph's level is 0.
C8_LevelOfNode ==
    Called("extractStructure") /\ ret # <<>> =>
        LET node == ret[1]
            l == Split(text)[node.line + 1]
            indent == Leading(l, WhiteSpace)
        IN  CASE node.type = "header" ->
                     node.level = Leading(l, {"#"}) /\ node.level \in 1..6
              [] node.type \in {"bullet", "numbered"} ->
                     /\ 2 * (node.level - 1) <= indent
                     /\ indent < 2 * node.level
                     /\ node.level >= 1
              [] node.type = "paragraph" -> node.level = 0

C8_Witness ==
    /\ Called("extractStructure")
    /\ ret # <<>>
    /\ ret[1].type = "numbered"
    /\ ret[1].level = 2
    /\ Leading(text, WhiteSpace) = 3

\* C9, as claimed: the content of every node has no white space at its
\* start and none at its end.
C9_ContentTrimmed ==
    Called("extractStructure") =>
        \A k \in 1..Len(ret) :
            LET content == ret[k].content
            IN  \/ content = <<>>
                \/ content[1] \notin WhiteSpace /\ content[Len(content)] \notin WhiteSpace

Count(types, n) == Cardinality({k \in 1..Len(types) : types[k].name = n})

\* The result is the defaults that no custom type names, in the defaults'
\* order, and after them the custom types in their order.
DefaultsThenCustoms ==
    LET kept == Len(ret) - Len(customTypes)
        at(k) == CHOOSE d \in 1..Len(DEFAULT_DOCUMENT_TYPES) :
                     DEFAULT_DOCUMENT_TYPES[d] = ret[k]
    IN  /\ kept >= 0
        /\ \A k \in 1..Len(customTypes) : ret[kept + k] = customTypes[k]
        /\ \A k \in 1..kept :
              /\ \E d \in 1..Len(DEFAULT_DOCUMENT_TYPES) :
                    DEFAULT_DOCUMENT_TYPES[d] = ret[k]
              /\ ret[k].name \notin Names(customTypes)
        /\ \A j, k \in 1..kept : j < k => at(j) < at(k)
        /\ \A d \in 1..Len(DEFAULT_DOCUMENT_TYPES) :
              DEFAULT_DOCUMENT_TYPES[d].name \notin Names(customTypes) =>
                  \E k \in 1..kept : ret[k] = DEFAULT_DOCUMENT_TYPES[d]

Overlay(mapping, t) ==
    IF t.name \in Names(mapping)
    THEN LET k == CHOOSE j \in 1..Len(mapping) : mapping[j].name = t.name
         IN  SubSeq(mapping, 1, k - 1) \o <<t>> \o SubSeq(mapping, k + 1, Len(mapping))
    ELSE mapping \o <<t>>

RECURSIVE OverlayAll(_, _)
OverlayAll(mapping, types) ==
    IF types = <<>> THEN mapping
    ELSE OverlayAll(Overlay(mapping, Head(types)), Tail(types))

OrderedMapping(custom) == OverlayAll(OverlayAll(<<>>, DEFAULT_DOCUMENT_TYPES), custom)

RecordsOf(types, n) == {types[k] : k \in {j \in 1..Len(types) : types[j].name = n}}

DistinctNames(types) == \A j, k \in 1..Len(types) : types[j].name = types[k].name => j = k

\* The types of a sequence whose name is not in a set, in their order.
Without(types, names) == SelectSeq(types, LAMBDA t : t.name \notin names)

\* C11, as claimed: getAllDocumentTypes returns the ordered mapping built
\* from the defaults and then the custom types, last write wins: the same
\* names, the same record of each name, in the same order.
C11_SameAsOrderedMapping ==
    Called("getAllDocumentTypes") => ret = OrderedMapping(customTypes)

\* C11, amended: getAllDocumentTypes returns the names of the ordered
\* mapping; when the custom names are distinct it returns the mapping's
\* record of each name, once, with the overriding custom types moved from
\* their default's place to their place among the custom types at the end;
\* it returns the mapping itself when the custom names are distinct and
\* none is a default's name.
C11_OrderedMappingUpToOrder ==
    Called("getAllDocumentTypes") =>
        LET mapping == OrderedMapping(customTypes)
            overriding == Names(customTypes) \cap Names(DEFAULT_DOCUMENT_TYPES)
        IN  /\ Names(ret) = Names(mapping)
            /\ DistinctNames(customTypes) =>
                  /\ DistinctNames(ret)
                  /\ \A n \in Names(ret) : RecordsOf(ret, n) = RecordsOf(mapping, n)
                  /\ Without(ret, Names(customTypes)) = Without(mapping, Names(customTypes))
                  /\ SubSeq(ret, Len(ret) - Len(customTypes) + 1, Len(ret)) = customTypes
            /\ DistinctNames(customTypes) /\ overriding = {} => ret = mapping

C11_Witness ==
    /\ Called("getAllDocumentTypes")
    /\ Len(customTypes) = 2
    /\ DistinctNames(customTypes)
    /\ "negotiation" \in Names(customTypes)
    /\ "custom" \in Names(customTypes)
    /\ ret # OrderedMapping(customTypes)
    /\ Names(ret) = Names(OrderedMapping(customTypes))

(***************************************************************************)
(* prompts/type-detector.ts.  A string literal of the source is written as *)
(* a TLA+ string and read as the sequence of its characters.               *)
(***************************************************************************)
RECURSIVE CharsFrom(_, _, _)
CharsFrom(literal, i, j) ==
    IF i > j THEN <<>>
    ELSE IF i = j THEN <<SubSeq(literal, i, i)>>
    ELSE LET mid == (i + j) \div 2
         IN  CharsFrom(literal, i, mid) \o CharsFrom(literal, mid + 1, j)

Chars(literal) == CharsFrom(literal, 1, Len(literal))

UpperCase == Chars("ABCDEFGHIJKLMNOPQRSTUVWXYZ")

LowerCase == Chars("abcdefghijklmnopqrstuvwxyz")

\* String.prototype.toLowerCase on the ASCII letters.
RECURSIVE ToLowerCase(_)
ToLowerCase(s) ==
    IF s = <<>> THEN <<>>
    ELSE LET c == Head(s)
             lower == IF \E k \in 1..Len(UpperCase) : UpperCase[k] = c
                      THEN LowerCase[CHOOSE k \in 1..Len(UpperCase) : UpperCase[k] = c]
                      ELSE c
         IN  <<lower>> \o ToLowerCase(Tail(s))

\* replace(/['"]/g, '')
RemoveQuotes(s) == SelectSeq(s, LAMBDA c : c \notin {"'", "\""})

\* The normalisation without the removal of the quotes.
NormalizeKeepingQuotes(response) == ToLowerCase(Trim(response))

NormalizeTypeName(response) == RemoveQuotes(ToLowerCase(Trim(response)))

\* Array.prototype.find: the first element that satisfies Test, or null.
Find(types, Matches(_)) ==
    LET found == SelectSeq(types, Matches)
    IN  IF found = <<>> THEN Null ELSE Some(Head(found))

\* detectDocumentType after llm.complete has returned response.
DetectedType(response, allTypes) ==
    LET typeName == NormalizeTypeName(response)
    IN  IF typeName = Chars("general") THEN Null
        ELSE Find(allTypes, LAMBDA t : ToLowerCase(Chars(t.name)) = typeName)

\* A selection that takes no account of the case of the letters.
SelectedTypeAnyCase(activeTypeName, custom) ==
    Find(getAllDocumentTypes(custom),
         LAMBDA t : ToLowerCase(Chars(t.name)) = ToLowerCase(Chars(activeTypeName)))

\* resolveDocumentType for an activeTypeName other than 'auto'.
SelectedType(activeTypeName, custom) ==
    Find(getAllDocumentTypes(custom), LAMBDA t : t.name = activeTypeName)

(***************************************************************************)
(* resolveDocumentType is one call in three steps: the call up to the      *)
(* await of llm.complete (or to its return when no completion is needed),  *)
(* and the continuation when the completion returns or throws.             *)
(***************************************************************************)
ActiveTypeNames ==
    {"auto", "negotiation", "brainstorm", "custom", "Custom", "general", "unknown"}

ResolverNames == {"negotiation", "Custom", "custom", "general", "auto"}

ResolverTexts == {Chars("# Deal"), Chars("what if")}

ResolverPool ==
    {[name |-> n, detectionPrompt |-> "d", workingPrompt |-> "w"] : n \in ResolverNames}

ResponseNames ==
    {"negotiation", "Negotiation", "brainstorm", "custom", "CUSTOM", "general",
     "General", "unknown", ""}

\* What the capability answers: a name, bare, quoted, followed by a line
\* break, and with spaces inside the quotes.
Decorations ==
    {<<"", "">>, <<"\"", "\"">>, <<"'", "'">>, <<" ", "\n">>, <<"\"", "\"\n">>,
     <<"\" ", " \"">>}

ResponseInputs ==
    {Chars(d[1]) \o Chars(n) \o Chars(d[2]) : n \in ResponseNames, d \in Decorations}

InitResolve ==
    /\ text \in ResolverTexts
    /\ cursorLine = 0
    /\ cursorColumn = 0
    /\ customTypes \in StringsUpTo(ResolverPool, MaxCustom)
    /\ call = NoCall
    /\ ret = Null
    /\ NoProvider

ResolveDocumentType ==
    /\ call = NoCall
    /\ \E activeTypeName \in ActiveTypeNames :
          IF activeTypeName = "auto" /\ getAllDocumentTypes(customTypes) # <<>>
          THEN /\ call' = [op |-> "resolveDocumentType", activeTypeName |-> activeTypeName,
                           pc |-> "await", response |-> Null]
               /\ llm' = [llm EXCEPT !.calls = @ + 1]
               /\ ret' = ret
          ELSE /\ call' = [op |-> "resolveDocumentType", activeTypeName |-> activeTypeName,
                           pc |-> "returned", response |-> Null]
               /\ llm' = llm
               /\ ret' = IF activeTypeName = "auto" THEN Null
                         ELSE SelectedType(activeTypeName, customTypes)
    /\ UNCHANGED <<text, cursorLine, cursorColumn, customTypes>>
    /\ UNCHANGED <<docContext, provider, docVersion, others, requests>>

\* llm.complete returns response.
DetectionReturns ==
    /\ call.op = "resolveDocumentType"
    /\ call.pc = "await"
    /\ \E response \in ResponseInputs :
          /\ call' = [call EXCEPT !.pc = "returned", !.response = Some(response)]
          /\ ret' = DetectedType(response, getAllDocumentTypes(customTypes))
    /\ UNCHANGED <<text, cursorLine, cursorColumn, customTypes>>
    /\ UNCHANGED providerVars

\* A catch block that calls llm.complete again.
DetectionThrowsRetries ==
    /\ call.op = "resolveDocumentType"
    /\ call.pc = "await"
    /\ llm.calls < 2
    /\ llm' = [llm EXCEPT !.calls = @ + 1]
    /\ UNCHANGED <<text, cursorLine, cursorColumn, customTypes, call, ret>>
    /\ UNCHANGED <<docContext, provider, docVersion, others, requests>>

\* llm.complete throws: the catch block logs and returns null.
DetectionThrows ==
    /\ call.op = "resolveDocumentType"
    /\ call.pc = "await"
    /\ call' = [call EXCEPT !.pc = "caught"]
    /\ ret' = Null
    /\ UNCHANGED <<text, cursorLine, cursorColumn, customTypes>>
    /\ UNCHANGED providerVars

NextResolve == ResolveDocumentType \/ DetectionReturns \/ DetectionThrows

SpecResolve == InitResolve /\ [][NextResolve]_vars

\* C12: with activeTypeName 'auto', when the completion has returned,
\* resolveDocumentType returns null if the response, trimmed, in lower case
\* and without its quote characters, is "general" or is the lower-case name
\* of no available type, and otherwise the first available type whose
\* lower-case name it is.
C12_ResponseNormalizedAndMatched ==
    (Called("resolveDocumentType") /\ call.activeTypeName = "auto"
        /\ call.pc = "returned") =>
        LET response == call.response[1]
            trimmed == Trim(response)
            normalized == RemoveQuotes(ToLowerCase(trimmed))
            available == getAllDocumentTypes(customTypes)
            matching == {k \in 1..Len(available) :
                            ToLowerCase(Chars(available[k].name)) = normalized}
        IN  /\ \A i \in 1..Len(normalized) : normalized[i] \notin {"'", "\""}
            /\ normalized = ToLowerCase(normalized)
            /\ IF normalized = Chars("general") \/ matching = {}
               THEN ret = Null
               ELSE /\ ret = Some(available[CHOOSE k \in matching : \A j \in matching : k <= j])
                    /\ llm.calls = 1

\* The response '"Custom"' followed by a line break selects the first of the
\* custom types "custom" and "Custom".
C12_Witness ==
    /\ Called("resolveDocumentType")
    /\ call.activeTypeName = "auto"
    /\ call.pc = "returned"
    /\ call.response = Some(Chars("\"CUSTOM\"\n"))
    /\ Len(customTypes) = 2
    /\ customTypes[1].name = "custom"
    /\ customTypes[2].name = "Custom"
    /\ ret = Some(customTypes[1])

\* C13: resolveDocumentType returns null when llm.complete throws, and one
\* call of it calls llm.complete at most once: never after a failure, and
\* not at all for an activeTypeName other than 'auto'.
C13_FailureGivesNullOneCall ==
    Called("resolveDocumentType") =>
        /\ call.pc = "caught" => ret = Null
        /\ llm.calls <= 1
        /\ call.activeTypeName # "auto" => llm.calls = 0

C13_Witness ==
    /\ Called("resolveDocumentType")
    /\ call.pc = "caught"
    /\ llm.calls = 1
    /\ ret = Null
    /\ customTypes # <<>>

(***************************************************************************)
(* prompts/templates.ts: the system prompts.  The dash U+2014 of           *)
(* CONTENT_SYSTEM_PROMPT has no TLA+ literal and is written "--".          *)
(***************************************************************************)
STRUCTURE_SYSTEM_PROMPT ==
    Chars("You are a Strategic Document Architect acting as a thought partner.\n")
    \o Chars("\n")
    \o Chars("Your role is NOT to write the content, but to design the *structure* that guides the user's thinking.\n")
    \o Chars("You suggest logical frameworks, gap analysis, and structural elements that force the user to cover critical angles.\n")
    \o Chars("\n")
    \o Chars("CRITICAL: Output ONLY the NEW structural elements (headers, bullets). Do NOT repeat existing content.\n")
    \o Chars("\n")
    \o Chars("Guidelines:\n")
    \o Chars("- Suggest specific, probing headers (e.g., \"### Potential Risks (Operational vs Financial)\" instead of just \"Risks\")\n")
    \o Chars("- Use standard frameworks relevant to the document type (e.g., SWOT, First Principles, SCAMPER)\n")
    \o Chars("- Highlight missing logic or gaps in the argument\n")
    \o Chars("- Keep suggestions concise but directive\n")
    \o Chars("- Force the user to think, don't do the thinking for them\n")
    \o Chars("\n")
    \o Chars("Return ONLY the new structure.")

CONTENT_SYSTEM_PROMPT ==
    Chars("You are a Socratic Editor and Thought Coach.\n")
    \o Chars("\n")
    \o Chars("Your role is NOT to write the content for the user, but to help them clarify and expand their own thoughts.\n")
    \o Chars("You provide \"scaffolding\" -- probing questions, leading sentences, and placeholders that guide the user to a deeper analysis.\n")
    \o Chars("\n")
    \o Chars("CRITICAL: Output ONLY new text to append. Do NOT repeat existing content.\n")
    \o Chars("\n")
    \o Chars("Guidelines:\n")
    \o Chars("- Use \"Socratic questioning\" in comments or brackets (e.g., \"<!-- What is the root cause? -->\")\n")
    \o Chars("- Provide *leading* sentences that force specific detail (e.g., \"The primary constraint here is...\")\n")
    \o Chars("- Don't flowery language; focus on logic, evidence, and precision\n")
    \o Chars("- If the cursor is in a blank section, provide a template or key questions to answer\n")
    \o Chars("- Enforce best practices for the specific document type\n")
    \o Chars("\n")
    \o Chars("Return ONLY the new text/scaffolding.")

(***************************************************************************)
(* prompts/builder.ts.  A null or empty section, like a null document      *)
(* type, is falsy and adds nothing to the prompt.                          *)
(***************************************************************************)
\* The fixed text of the two user prompt templates, between the interpolations.
ContextHeading ==
    Chars("CONTEXT & FRAMEWORK:\n")

RecentStructureHeading ==
    Chars("\n")
    \o Chars("\n")
    \o Chars("RECENT STRUCTURE:\n")

ContentBeforeHeading ==
    Chars("\n")
    \o Chars("\n")
    \o Chars("CONTENT BEFORE CURSOR (DO NOT REPEAT):\n")

StructureInstructions ==
    Chars("\n")
    \o Chars("\n")
    \o Chars("INSTRUCTIONS:\n")
    \o Chars("1. Analyze the logic flow above.\n")
    \o Chars("2. Suggest the MAJOR structural elements (headers/bullets) that should come next.\n")
    \o Chars("3. Use the framework specified directly above (e.g., SWOT, Negotiations).\n")
    \o Chars("4. DO NOT write content. DO NOT repeat existing text.\n")
    \o Chars("5. If the argument is weak, suggest a header like \"### Critical Gaps\" or \"### Evidence Required\".\n")
    \o Chars("\n")
    \o Chars("Generate ONLY the new structure.")

CurrentLineHeading ==
    Chars("\n")
    \o Chars("\n")
    \o Chars("CURRENT LINE:\n")

ContentAfterHeading ==
    Chars("\n")
    \o Chars("\n")
    \o Chars("CONTENT AFTER CURSOR:\n")

ContentInstructions ==
    Chars("\n")
    \o Chars("\n")
    \o Chars("INSTRUCTIONS:\n")
    \o Chars("1. You are coaching the user to write this section.\n")
    \o Chars("2. Provide *leading sentences* that force specific logic (e.g., \"The root cause of this is...\").\n")
    \o Chars("3. Insert *probing questions* as comments (e.g., \"<!-- Is this assumption valid? -->\").\n")
    \o Chars("4. DO NOT simply autocomplete generic text.\n")
    \o Chars("5. DO NOT repeat existing text.\n")
    \o Chars("\n")
    \o Chars("Generate ONLY the new text/scaffolding.")

TypeContext(context) ==
    IF context.documentType # Null
    THEN Chars("\nDocument type: ") \o Chars(context.documentType[1].name)
         \o Chars("\n") \o Chars(context.documentType[1].workingPrompt)
    ELSE <<>>

SectionContext(context) ==
    IF context.currentSection # Null /\ context.currentSection[1] # <<>>
    THEN Chars("\nCurrent section: ") \o context.currentSection[1]
    ELSE <<>>

\* The callback of map: the line of one structure node.
NodeLine(n) ==
    LET prefix ==
            IF n.type = "header" THEN Repeat("#", n.level) \o Chars(" ")
            ELSE IF n.type = "bullet" THEN Repeat(" ", 2 * (n.level - 1)) \o Chars("- ")
            ELSE IF n.type = "numbered" THEN Repeat(" ", 2 * (n.level - 1)) \o Chars("1. ")
            ELSE <<>>
    IN  prefix \o n.content

RECURSIVE MapNodeLine(_)
MapNodeLine(nodes) ==
    IF nodes = <<>> THEN <<>> ELSE <<NodeLine(Head(nodes))>> \o MapNodeLine(Tail(nodes))

\* A summary of every node of the structure.
AllNodes(structure) == structure

\* precedingStructure.slice(-10)
RecentNodes(structure) == SliceFrom(structure, -10)

StructureSummary(context) == Join(MapNodeLine(RecentNodes(context.precedingStructure)))

buildStructurePrompt(context) ==
    LET typeContext == TypeContext(context)
        sectionContext == SectionContext(context)
        structureSummary == StructureSummary(context)
        userPrompt ==
            ContextHeading
            \o typeContext
            \o sectionContext
            \o RecentStructureHeading
            \o structureSummary
            \o ContentBeforeHeading
            \o context.textBeforeCursor
            \o StructureInstructions
    IN  [systemPrompt |-> STRUCTURE_SYSTEM_PROMPT, userPrompt |-> userPrompt]

buildContentPrompt(context) ==
    LET typeContext == TypeContext(context)
        sectionContext == SectionContext(context)
        userPrompt ==
            ContextHeading
            \o typeContext
            \o sectionContext
            \o ContentBeforeHeading
            \o context.textBeforeCursor
            \o CurrentLineHeading
            \o context.currentLine
            \o ContentAfterHeading
            \o context.textAfterCursor
            \o ContentInstructions
    IN  [systemPrompt |-> CONTENT_SYSTEM_PROMPT, userPrompt |-> userPrompt]

buildPrompt(context) ==
    IF context.cursorPosition = "structure"
    THEN buildStructurePrompt(context)
    ELSE buildContentPrompt(context)

\* buildPromptForMode choosing by the cursor position of the context.
buildPromptForDetectedMode(context, mode) == buildPrompt(context)

buildPromptForMode(context, mode) ==
    IF mode = "structure"
    THEN buildStructurePrompt(context)
    ELSE buildContentPrompt(context)

(***************************************************************************)
(* The prompt builder's caller holds a DocumentContext in docContext:      *)
(* it analyses a document for a new one, and calls the two builders on it. *)
(***************************************************************************)
MaxNodes == 12

MaxCalls == 2

PromptLines ==
    <<Chars("# Plan"), Chars("- goal"), Chars("  - detail"), Chars("1. first"),
      Chars("note"), Chars("## Risks"), Chars("    * deep"), Chars("  2. second"),
      Chars("### Costs "), Chars("- ")>>

RECURSIVE CycleLines(_, _)
CycleLines(k, n) ==
    IF k > n THEN <<>>
    ELSE <<PromptLines[((k - 1) % Len(PromptLines)) + 1]>> \o CycleLines(k + 1, n)

\* A document of MaxNodes structure lines and a last line of prose, and two
\* short ones.
PromptDocs ==
    {Join(CycleLines(1, MaxNodes) \o <<Chars("prose")>>),
     Chars("text\n\n## Open\nmore"),
     <<>>}

PromptTypes == {Null, Some(DEFAULT_DOCUMENT_TYPES[1])}

\* The context of the unit tests of buildPrompt and buildPromptForMode.
baseContext ==
    [textBeforeCursor |-> Chars("Some text before"),
     textAfterCursor |-> Chars("Some text after"),
     currentLine |-> Chars("Current line"),
     cursorPosition |-> "content",
     precedingStructure |-> <<>>,
     currentSection |-> Some(Chars("Test Section")),
     currentDepth |-> 0,
     documentType |-> Null]

ContextInputs ==
    {analyzeDocument(t, line, 0, documentType) :
        t \in PromptDocs, line \in {0, 1, 2, 3} \cup (MaxNodes - 4)..MaxNodes,
        documentType \in PromptTypes}
    \cup {baseContext, [baseContext EXCEPT !.cursorPosition = "structure"]}

Modes == {"structure", "content"}

InitPrompt ==
    /\ text = <<>>
    /\ cursorLine = 0
    /\ cursorColumn = 0
    /\ customTypes = <<>>
    /\ call = NoCall
    /\ ret = Null
    /\ docContext \in ContextInputs
    /\ provider = <<>>
    /\ docVersion = 0
    /\ others = <<>>
    /\ requests = <<>>
    /\ llm = [calls |-> 0]

\* The caller analyses a document again.
NewContext ==
    /\ docContext' \in ContextInputs
    /\ UNCHANGED <<text, cursorLine, cursorColumn, customTypes, call, ret>>
    /\ UNCHANGED <<provider, docVersion, others, requests, llm>>

\* The calls made so far, up to MaxCalls.
CallsMade == IF call = NoCall THEN 0 ELSE call.calls

\* A builder that cuts the structure of its context down to the recent
\* nodes in place (splice for slice).
BuildPromptSplicing ==
    /\ CallsMade < MaxCalls
    /\ call' = [op |-> "buildPrompt", context |-> docContext,
                mode |-> docContext.cursorPosition, calls |-> CallsMade + 1]
    /\ ret' = buildPrompt(docContext)
    /\ docContext' = [docContext EXCEPT !.precedingStructure = RecentNodes(@)]
    /\ UNCHANGED <<text, cursorLine, cursorColumn, customTypes>>
    /\ UNCHANGED <<provider, docVersion, others, requests, llm>>

BuildPrompt ==
    /\ CallsMade < MaxCalls
    /\ call' = [op |-> "buildPrompt", context |-> docContext,
                mode |-> docContext.cursorPosition, calls |-> CallsMade + 1]
    /\ ret' = buildPrompt(docContext)
    /\ UNCHANGED <<text, cursorLine, cursorColumn, customTypes>>
    /\ UNCHANGED providerVars

BuildPromptForMode ==
    /\ CallsMade < MaxCalls
    /\ \E mode \in Modes :
          /\ call' = [op |-> "buildPromptForMode", context |-> docContext,
                      mode |-> mode, calls |-> CallsMade + 1]
          /\ ret' = buildPromptForMode(docContext, mode)
    /\ UNCHANGED <<text, cursorLine, cursorColumn, customTypes>>
    /\ UNCHANGED providerVars

NextPrompt == NewContext \/ BuildPrompt \/ BuildPromptForMode

SpecPrompt == InitPrompt /\ [][NextPrompt]_vars

Built == Called("buildPrompt") \/ Called("buildPromptForMode")

\* C14: buildPromptForMode returns the system prompt of its mode whatever
\* the cursor position of the context, and buildPrompt returns what
\* buildPromptForMode returns for the cursor position of the context.
C14_SystemPromptByMode ==
    /\ Called("buildPromptForMode") =>
          ret.systemPrompt = IF call.mode = "structure" THEN STRUCTURE_SYSTEM_PROMPT
                             ELSE CONTENT_SYSTEM_PROMPT
    /\ Called("buildPrompt") =>
          ret = buildPromptForMode(call.context, call.context.cursorPosition)

C14_Witness ==
    /\ Called("buildPromptForMode")
    /\ call.mode = "structure"
    /\ call.context.cursorPosition = "content"
    /\ call.context.precedingStructure # <<>>
    /\ ret.systemPrompt = STRUCTURE_SYSTEM_PROMPT

Contains(s, phrase) ==
    \E i \in 1..(Len(s) - Len(phrase) + 1) : SubSeq(s, i, i + Len(phrase) - 1) = phrase

\* C15, as claimed: the system prompt built in content mode contains the
\* phrase "writing assistant" and the one built in structure mode the
\* phrase "structuring assistant".
C15_SystemPromptPhrases ==
    Built =>
        IF call.mode = "structure"
        THEN Contains(ret.systemPrompt, Chars("structuring assistant"))
        ELSE Contains(ret.systemPrompt, Chars("writing assistant"))

\* The line of a node in the recent structure block, written out by node type.
IndentOf(level) == Repeat(" ", 2 * (level - 1))

EntryLine(n) ==
    CASE n.type = "header" -> Repeat("#", n.level) \o <<" ">> \o n.content
      [] n.type = "bullet" -> IndentOf(n.level) \o <<"-", " ">> \o n.content
      [] n.type = "numbered" -> IndentOf(n.level) \o <<"1", ".", " ">> \o n.content
      [] n.type = "paragraph" -> n.content

\* Entries k..Len(nodes), one per line, oldest first.
RECURSIVE BlockFrom(_, _)
BlockFrom(nodes, k) ==
    IF k > Len(nodes) THEN <<>>
    ELSE IF k = Len(nodes) THEN EntryLine(nodes[k])
    ELSE EntryLine(nodes[k]) \o <<"\n">> \o BlockFrom(nodes, k + 1)

\* C16: the user prompt of structure mode holds, between the heading
\* "RECENT STRUCTURE:" and the heading of the content before the cursor,
\* the lines of the last 10 entries of precedingStructure (of all of them
\* when there are fewer), oldest first, and of no earlier entry.
C16_RecentStructureBlock ==
    (Built /\ call.mode = "structure") =>
        LET nodes == call.context.precedingStructure
            first == IF Len(nodes) > 10 THEN Len(nodes) - 9 ELSE 1
            block == BlockFrom(nodes, first)
            upToBlock ==
                Chars("CONTEXT & FRAMEWORK:\n") \o TypeContext(call.context)
                \o SectionContext(call.context)
                \o Chars("\n\nRECENT STRUCTURE:\n") \o block
                \o Chars("\n\nCONTENT BEFORE CURSOR (DO NOT REPEAT):\n")
        IN  /\ IsPrefix(upToBlock, ret.userPrompt)
            /\ nodes # <<>> => CountNewlines(block) = Len(nodes) - first

C16_Witness ==
    /\ Built
    /\ call.mode = "structure"
    /\ Len(call.context.precedingStructure) = MaxNodes
    /\ \E k \in 1..MaxNodes :
          /\ call.context.precedingStructure[k].type = "numbered"
          /\ call.context.precedingStructure[k].level = 2
    /\ Contains(ret.userPrompt, Chars("RECENT STRUCTURE:\n  - detail\n1. first\n"))

MaxRequests == 2

MaxVersion == 2

MaxConfigs == 2

DocumentTexts == <<Chars("# Deal\nour terms"), Chars("# Deal\nour terms\n- ")>>

TextOfVersion(v) == DocumentTexts[((v - 1) % Len(DocumentTexts)) + 1]

\* The end of the header line, and the middle of a word of the second line.
Positions == {[line |-> 0, character |-> 6], [line |-> 1, character |-> 2]}

TriggerKinds == {"Automatic", "Invoke"}

ConfigInputs ==
    {[customTypes |-> <<>>, activeTypeName |-> "auto", enabled |-> TRUE,
      triggerMode |-> "auto"],
     [customTypes |-> <<>>, activeTypeName |-> "brainstorm", enabled |-> TRUE,
      triggerMode |-> "manual"],
     [customTypes |-> <<>>, activeTypeName |-> "auto", enabled |-> FALSE,
      triggerMode |-> "auto"]}

DetectionResponses == {Chars("\"Negotiation\""), Chars("general")}

CompletionResponses == {Chars("Next:"), <<>>}

\* new ThoughtCompletionProvider(llm, customTypes, activeTypeName, enabled,
\* triggerMode)
Constructed(c) ==
    [customTypes |-> c.customTypes, activeTypeName |-> c.activeTypeName,
     enabled |-> c.enabled, triggerMode |-> c.triggerMode,
     cachedType |-> Null, cachedDocVersion |-> -1, forcedMode |-> Null,
     started |-> 0, config |-> 1, forcedFor |-> 0, typeFrom |-> Null,
     typeDocument |-> 0]

InitProvider ==
    /\ docVersion = 1
    /\ text = TextOfVersion(1)
    /\ cursorLine = 0
    /\ cursorColumn = 0
    /\ customTypes = <<>>
    /\ call = NoCall
    /\ ret = Null
    /\ docContext = <<>>
    /\ provider = Constructed([customTypes |-> <<>>, activeTypeName |-> "auto",
                                enabled |-> TRUE, triggerMode |-> "auto"])
    /\ others = <<>>
    /\ requests = <<>>
    /\ llm = [calls |-> 0]

\* document.getText() and document.version of the document of a call: 0 is
\* the document, k > 0 the k-th of the other open documents.
TextOf(document) == IF document = 0 THEN text ELSE others[document].text

VersionOf(document) == IF document = 0 THEN docVersion ELSE others[document].version

\* Call number of provideInlineCompletionItems at the await of
\* resolveDocumentType: text = document.getText(), the customTypes it
\* passed, and its token, not signalled when the call is made.
Frame(number, document, position) ==
    [number |-> number, document |-> document, position |-> Some(position),
     pc |-> "awaitType", text |-> Some(TextOf(document)),
     customTypes |-> provider.customTypes, docType |-> Null,
     typeFrom |-> Some([version |-> VersionOf(document), config |-> provider.config]),
     prompt |-> Null, isCancellationRequested |-> FALSE]

\* !/\s/.test(line.text[position.character]) below the end of the line
MidWord(lineText, position) ==
    /\ position.character < Len(lineText)
    /\ lineText[position.character + 1] \notin WhiteSpace

\* this.cachedType = docType; this.cachedDocVersion = document.version
CacheWritten(prov, r) ==
    [prov EXCEPT !.cachedType = r.docType,
                 !.cachedDocVersion = VersionOf(r.document),
                 !.typeFrom = r.typeFrom, !.typeDocument = r.document]

\* The prompt of a request: in the forced mode if one is set, else in the
\* mode of the context's cursor position.
BuiltPrompt(context, forcedMode) ==
    IF forcedMode # Null
    THEN buildPromptForMode(context, forcedMode[1])
    ELSE buildPrompt(context)

\* Which of the two system prompts a built prompt carries.
SystemPromptOf(built) ==
    IF built.systemPrompt = STRUCTURE_SYSTEM_PROMPT THEN "structure" ELSE "content"

\* From the test of the cancellation token after the type is resolved to
\* the await of the completion: whether the call returned, what it logged
\* last, the call at the await, the provider and the capability.
AfterType(r, prov, l, isCancellationRequested) ==
    IF isCancellationRequested
    THEN [returned |-> TRUE, log |-> "Processing completion request...",
          request |-> Null, provider |-> prov, llm |-> l]
    ELSE LET built == BuiltPrompt(analyzeDocument(r.text[1], r.position[1].line,
                                                  r.position[1].character, r.docType),
                                  prov.forcedMode)
         IN  [returned |-> FALSE, log |-> "Built prompt, calling LLM...",
              request |->
                  Some([r EXCEPT !.pc = "awaitCompletion", !.position = Null,
                                 !.text = Null, !.customTypes = <<>>,
                                 !.docType = Null, !.typeFrom = Null,
                                 !.prompt = Some(SystemPromptOf(built))]),
              provider |-> [prov EXCEPT !.forcedMode = Null],
              llm |-> [l EXCEPT !.calls = @ + 1]]

(***************************************************************************)
(* provideInlineCompletionItems from its entry to its first await or its   *)
(* return.  The await of resolveDocumentType for an explicit type waits    *)
(* for no event and is taken in the same step.                             *)
(***************************************************************************)
\* An entry that clears forcedMode when it returns early.
BeginForgettingForcedMode(triggerKind, document, position) ==
    LET number == provider.started + 1
        entered == [provider EXCEPT !.started = number]
        lineText == LineAt(Split(TextOf(document)), position.line)
        early(log) ==
            [returned |-> TRUE, log |-> log, request |-> Null,
             provider |-> [entered EXCEPT !.forcedMode = Null], llm |-> llm]
        r1 == Frame(number, document, position)
    IN  IF ~provider.enabled THEN early("Disabled, returning null")
        ELSE IF provider.triggerMode = "manual" /\ triggerKind = "Automatic"
        THEN early("Manual mode - ignoring automatic trigger")
        ELSE IF triggerKind = "Automatic" /\ MidWord(lineText, position)
        THEN early("Mid-word, skipping")
        ELSE IF VersionOf(document) # provider.cachedDocVersion
        THEN IF provider.activeTypeName = "auto"
                  /\ getAllDocumentTypes(provider.customTypes) # <<>>
             THEN [returned |-> FALSE, log |-> "Processing completion request...",
                   request |-> Some(r1), provider |-> entered,
                   llm |-> [llm EXCEPT !.calls = @ + 1]]
             ELSE LET r2 == [r1 EXCEPT
                                !.docType = IF provider.activeTypeName = "auto" THEN Null
                                            ELSE SelectedType(provider.activeTypeName,
                                                              provider.customTypes)]
                  IN  AfterType(r2, CacheWritten(entered, r2), llm, FALSE)
        ELSE AfterType([r1 EXCEPT !.docType = provider.cachedType,
                                  !.typeFrom = provider.typeFrom],
                       entered, llm, FALSE)

Begin(triggerKind, document, position) ==
    LET number == provider.started + 1
        entered == [provider EXCEPT !.started = number]
        lineText == LineAt(Split(TextOf(document)), position.line)
        early(log) ==
            [returned |-> TRUE, log |-> log, request |-> Null,
             provider |-> entered, llm |-> llm]
        r1 == Frame(number, document, position)
    IN  IF ~provider.enabled THEN early("Disabled, returning null")
        ELSE IF provider.triggerMode = "manual" /\ triggerKind = "Automatic"
        THEN early("Manual mode - ignoring automatic trigger")
        ELSE IF triggerKind = "Automatic" /\ MidWord(lineText, position)
        THEN early("Mid-word, skipping")
        ELSE IF VersionOf(document) # provider.cachedDocVersion
        THEN IF provider.activeTypeName = "auto"
                  /\ getAllDocumentTypes(provider.customTypes) # <<>>
             THEN [returned |-> FALSE, log |-> "Processing completion request...",
                   request |-> Some(r1), provider |-> entered,
                   llm |-> [llm EXCEPT !.calls = @ + 1]]
             ELSE LET r2 == [r1 EXCEPT
                                !.docType = IF provider.activeTypeName = "auto" THEN Null
                                            ELSE SelectedType(provider.activeTypeName,
                                                              provider.customTypes)]
                  IN  AfterType(r2, CacheWritten(entered, r2), llm, FALSE)
        ELSE AfterType([r1 EXCEPT !.docType = provider.cachedType,
                                  !.typeFrom = provider.typeFrom],
                       entered, llm, FALSE)

Entry(triggerKind, log) ==
    [op |-> "provideInlineCompletionItems", triggerKind |-> triggerKind, log |-> log]

ProvideInlineCompletionItems ==
    /\ provider.started < MaxRequests
    /\ \E triggerKind \in TriggerKinds, document \in 0..Len(others),
          position \in Positions :
          \E out \in {Begin(triggerKind, document, position)} :
              /\ provider' = out.provider
              /\ llm' = out.llm
              /\ call' = Entry(triggerKind, out.log)
              /\ IF out.returned
                 THEN /\ requests' = requests
                      /\ ret' = Null
                 ELSE /\ requests' = Append(requests, out.request[1])
                      /\ ret' = ret
    /\ UNCHANGED <<text, cursorLine, cursorColumn, customTypes, docContext, docVersion, others>>

Without1(frames, i) == SubSeq(frames, 1, i - 1) \o SubSeq(frames, i + 1, Len(frames))

\* Call i goes on after the await of resolveDocumentType.
Continued(i, after) ==
    \E out \in {after} :
        /\ provider' = out.provider
        /\ llm' = out.llm
        /\ call' = call
        /\ IF out.returned
           THEN /\ requests' = Without1(requests, i)
                /\ ret' = Null
           ELSE /\ requests' = [requests EXCEPT ![i] = out.request[1]]
                /\ ret' = ret

\* The completion of type detection returns: detectDocumentType returns
\* the type, the call caches it and goes on.
TypeDetectionReturns ==
    /\ \E i \in 1..Len(requests), response \in DetectionResponses :
          /\ requests[i].pc = "awaitType"
          /\ LET allTypes == getAllDocumentTypes(requests[i].customTypes)
                 r == [requests[i] EXCEPT !.docType = DetectedType(response, allTypes)]
             IN  Continued(i, AfterType(r, CacheWritten(provider, r), llm,
                                        r.isCancellationRequested))
    /\ UNCHANGED <<text, cursorLine, cursorColumn, customTypes, docContext, docVersion, others>>

\* The completion of type detection throws: detectDocumentType returns null.
TypeDetectionThrows ==
    /\ \E i \in 1..Len(requests) :
          /\ requests[i].pc = "awaitType"
          /\ LET r == [requests[i] EXCEPT !.docType = Null]
             IN  Continued(i, AfterType(r, CacheWritten(provider, r), llm,
                                        r.isCancellationRequested))
    /\ UNCHANGED <<text, cursorLine, cursorColumn, customTypes, docContext, docVersion, others>>

\* The completion returns and the call does not test its token.
CompletionReturnsDespiteToken ==
    /\ \E i \in 1..Len(requests), completion \in CompletionResponses :
          /\ requests[i].pc = "awaitCompletion"
          /\ requests' = Without1(requests, i)
          /\ ret' = IF completion = <<>> THEN Null ELSE Some(completion)
    /\ UNCHANGED <<provider, llm, call>>
    /\ UNCHANGED <<text, cursorLine, cursorColumn, customTypes, docContext, docVersion, others>>

\* The completion returns: null for a signalled token or an empty
\* completion, else the completion.
CompletionReturns ==
    /\ \E i \in 1..Len(requests), completion \in CompletionResponses :
          /\ requests[i].pc = "awaitCompletion"
          /\ requests' = Without1(requests, i)
          /\ ret' = IF requests[i].isCancellationRequested \/ completion = <<>>
                    THEN Null
                    ELSE Some(completion)
    /\ UNCHANGED <<provider, llm, call>>
    /\ UNCHANGED <<text, cursorLine, cursorColumn, customTypes, docContext, docVersion, others>>

CompletionThrows ==
    /\ \E i \in 1..Len(requests) :
          /\ requests[i].pc = "awaitCompletion"
          /\ requests' = Without1(requests, i)
          /\ ret' = Null
    /\ UNCHANGED <<provider, llm, call>>
    /\ UNCHANGED <<text, cursorLine, cursorColumn, customTypes, docContext, docVersion, others>>

\* The editor signals the token of a call that has not returned.
CancelRequest ==
    /\ \E i \in 1..Len(requests) :
          /\ ~requests[i].isCancellationRequested
          /\ requests' = [requests EXCEPT ![i].isCancellationRequested = TRUE]
    /\ UNCHANGED <<provider, llm, call, ret>>
    /\ UNCHANGED <<text, cursorLine, cursorColumn, customTypes, docContext, docVersion, others>>

\* An edit gives the document its next revision.
EditDocument ==
    /\ docVersion < MaxVersion
    /\ docVersion' = docVersion + 1
    /\ text' = TextOfVersion(docVersion + 1)
    /\ UNCHANGED <<cursorLine, cursorColumn, customTypes, call, ret>>
    /\ UNCHANGED <<docContext, provider, others, requests, llm>>

UpdateConfig ==
    /\ provider.config < MaxConfigs
    /\ \E c \in ConfigInputs :
          provider' = [provider EXCEPT !.customTypes = c.customTypes,
                                       !.activeTypeName = c.activeTypeName,
                                       !.enabled = c.enabled,
                                       !.triggerMode = c.triggerMode,
                                       !.cachedType = Null,
                                       !.cachedDocVersion = -1,
                                       !.config = @ + 1,
                                       !.typeFrom = Null]
    /\ UNCHANGED <<requests, llm, call, ret>>
    /\ UNCHANGED <<text, cursorLine, cursorColumn, customTypes, docContext, docVersion, others>>

\* setForcedMode as the commands call it, before they trigger a completion.
SetForcedMode ==
    /\ provider.started < MaxRequests
    /\ \E mode \in Modes :
          provider' = [provider EXCEPT !.forcedMode = Some(mode),
                                       !.forcedFor = provider.started + 1]
    /\ UNCHANGED <<requests, llm, call, ret>>
    /\ UNCHANGED <<text, cursorLine, cursorColumn, customTypes, docContext, docVersion, others>>

NextProvider ==
    \/ ProvideInlineCompletionItems
    \/ TypeDetectionReturns
    \/ TypeDetectionThrows
    \/ CompletionReturns
    \/ CompletionThrows
    \/ EditDocument
    \/ UpdateConfig
    \/ SetForcedMode

SpecProvider == InitProvider /\ [][NextProvider]_vars

\* The calls and the editor's cancellations alone, on a provider and a
\* document left as they are.
NextCancel ==
    \/ ProvideInlineCompletionItems
    \/ TypeDetectionReturns
    \/ TypeDetectionThrows
    \/ CompletionReturns
    \/ CompletionThrows
    \/ CancelRequest

SpecCancel == InitProvider /\ [][NextCancel]_vars

\* A second document open in the editor, at the revision the first one has
\* when it is opened.
OtherDocuments == <<[text |-> Chars("# Ideas\nwhat if"), version |-> 1]>>

InitDocuments ==
    /\ docVersion = 1
    /\ text = TextOfVersion(1)
    /\ cursorLine = 0
    /\ cursorColumn = 0
    /\ customTypes = <<>>
    /\ call = NoCall
    /\ ret = Null
    /\ docContext = <<>>
    /\ provider = Constructed([customTypes |-> <<>>, activeTypeName |-> "auto",
                                enabled |-> TRUE, triggerMode |-> "auto"])
    /\ others = OtherDocuments
    /\ requests = <<>>
    /\ llm = [calls |-> 0]

\* The calls on either document and the edits of the first.
NextDocuments ==
    \/ ProvideInlineCompletionItems
    \/ TypeDetectionReturns
    \/ TypeDetectionThrows
    \/ CompletionReturns
    \/ CompletionThrows
    \/ EditDocument

SpecDocuments == InitDocuments /\ [][NextDocuments]_vars

\* Call number n is at the await of the completion.
HasPrompt(frames, n) ==
    \E i \in 1..Len(frames) : frames[i].number = n /\ frames[i].pc = "awaitCompletion"

\* In this step call number n built its prompt.
BuildsPrompt(n) == HasPrompt(requests', n) /\ ~HasPrompt(requests, n)

\* The revision the document had when call number n was made, for a call
\* that builds its prompt in this step: a call that awaited the type was
\* made at the revision its resolution started from, any other call is
\* made in this step.
RevisionAtCall(n) ==
    IF \E i \in 1..Len(requests) : requests[i].number = n
    THEN LET i == CHOOSE i \in 1..Len(requests) : requests[i].number = n
         IN  requests[i].typeFrom[1].version
    ELSE docVersion

\* C18: in every interleaving of requests, edits and updateConfig calls, a
\* request that builds its prompt with a document type builds it with a
\* type resolved from the revision the document had when the request was
\* made and under the configuration the provider has when the prompt is
\* built.  After a step that builds a prompt, cachedType is the type the
\* prompt was built with and typeFrom is where that type was resolved from.
C18_TypeOfThisRevisionAndConfiguration ==
    [][\A n \in 1..MaxRequests :
          (BuildsPrompt(n) /\ provider'.cachedType # Null) =>
              provider'.typeFrom = Some([version |-> RevisionAtCall(n),
                                         config |-> provider'.config])]_vars

\* C19: the forced mode is used by the request that was the next one when
\* setForcedMode was called, and by no other: a request that builds its
\* prompt while forcedMode is set is that next request.
C19_ForcedModeUsedByNextRequest ==
    [][\A n \in 1..MaxRequests :
          (BuildsPrompt(n) /\ provider.forcedMode # Null) =>
              n = provider.forcedFor]_vars

Pending(frames, n) ==
    LET i == CHOOSE i \in 1..Len(frames) : frames[i].number = n IN frames[i]

IsPending(frames, n) == \E i \in 1..Len(frames) : frames[i].number = n

\* C25: a call whose token is signalled when its type resolution finishes
\* returns null and makes no call for generation; a call whose token is
\* signalled when its generation finishes returns null; and a completion is
\* returned only by a call whose generation finishes with its token not
\* signalled, and is not empty.
C25_CancelledReturnsNull ==
    [][/\ \A n \in 1..MaxRequests :
             (IsPending(requests, n) /\ Pending(requests, n).isCancellationRequested
                 /\ (~IsPending(requests', n) \/ Pending(requests', n).pc # Pending(requests, n).pc))
             => /\ ~IsPending(requests', n)
                /\ ret' = Null
                /\ llm' = llm
       /\ (ret' # Null /\ (ret' # ret \/ Len(requests') < Len(requests))) =>
             /\ ret'[1] # <<>>
             /\ \E n \in 1..MaxRequests :
                   /\ IsPending(requests, n)
                   /\ ~IsPending(requests', n)
                   /\ Pending(requests, n).pc = "awaitCompletion"
                   /\ ~Pending(requests, n).isCancellationRequested]_vars

\* A call was cancelled while its type was detected: the detection was
\* made and its result cached, no generation was asked for, and the call
\* has returned null.
C25_Witness ==
    /\ provider.started = 1
    /\ requests = <<>>
    /\ llm.calls = 1
    /\ provider.cachedDocVersion = docVersion
    /\ call = Entry("Invoke", "Processing completion request...")
    /\ ret = Null

\* In this step call number n returns: it is made and returns at once, or
\* it was pending and is no more.
Returns(n) ==
    \/ provider.started = n - 1 /\ provider'.started = n /\ ~IsPending(requests', n)
    \/ IsPending(requests, n) /\ ~IsPending(requests', n)

\* C26: forcedMode is null once the request that a force command triggered
\* has returned, whatever path it took.  The request a command triggers is
\* the next one after setForcedMode, made with the trigger kind Invoke.
C26_ForcedModeNullAfterRequest ==
    [][\A n \in 1..MaxRequests :
          (/\ Returns(n)
           /\ n = provider.forcedFor
           /\ provider.forcedMode # Null
           /\ provider'.started = n /\ provider.started = n - 1 =>
                  call'.triggerKind = "Invoke")
          => provider'.forcedMode = Null]_vars

\* C27: a request that builds its prompt with a document type builds it
\* with a type resolved from the text of the request's own document, also
\* when another open document has the same revision number.  After a step
\* that builds a prompt, cachedType is the type the prompt was built with
\* and typeDocument the document it was resolved from.
C27_TypeOfTheSameDocument ==
    [][\A n \in 1..MaxRequests :
          (BuildsPrompt(n) /\ provider'.cachedType # Null) =>
              provider'.typeDocument = Pending(requests', n).document]_vars

\* C28: selecting by its name a type that getAllDocumentTypes returns
\* gives a type of that name and makes no call of the completion
\* capability, whatever the name is.
C28_SelectingByNameResolves ==
    (Called("resolveDocumentType")
        /\ call.activeTypeName \in Names(getAllDocumentTypes(customTypes))) =>
        /\ call.pc = "returned"
        /\ llm.calls = 0
        /\ ret # Null
        /\ ret[1].name = call.activeTypeName

\* C29: with an activeTypeName other than 'auto', resolveDocumentType makes
\* no call of the completion capability and returns, whatever the text of
\* the document, the first of the merged types whose name is activeTypeName
\* letter for letter, or null when there is none.
C29_ExplicitTypeByExactName ==
    (Called("resolveDocumentType") /\ call.activeTypeName # "auto") =>
        LET merged == getAllDocumentTypes(customTypes)
            named == {k \in 1..Len(merged) : merged[k].name = call.activeTypeName}
        IN  /\ call.pc = "returned"
            /\ llm.calls = 0
            /\ IF named = {} THEN ret = Null
               ELSE ret = Some(merged[CHOOSE k \in named : \A j \in named : k <= j])

\* "custom" selects the second custom type, not "Custom" before it.
C29_Witness ==
    /\ Called("resolveDocumentType")
    /\ call.activeTypeName = "custom"
    /\ Len(customTypes) = 2
    /\ customTypes[1].name = "Custom"
    /\ customTypes[2].name = "custom"
    /\ ret = Some(customTypes[2])
    /\ text = Chars("what if")

(***************************************************************************)
(* analyzeDocument with a cursor outside the document or outside its line. *)
(***************************************************************************)
\* The joined lines of the "before" window, every line in full, capped.
FullBefore ==
    LET lines == Split(text)
        lo == Max(0, cursorLine - 20)
        hi == Min(cursorLine, Len(lines) - 1)
    IN  IF hi < lo THEN <<>> ELSE SliceFrom(Join(Window(lines, lo, hi)), -1000)

\* C21: analyzeDocument returns a context for every cursor: with cursorLine
\* at or beyond the number of lines currentLine is the empty string, and
\* with cursorColumn beyond the length of the cursor line the "before"
\* window ends with the whole cursor line.
C21_OutOfRangeCursorDefaults ==
    Called("analyzeDocument") =>
        LET lines == Split(text)
        IN  /\ DOMAIN ret = {"documentType", "currentSection", "cursorPosition",
                             "precedingStructure", "currentDepth",
                             "textBeforeCursor", "textAfterCursor", "currentLine"}
            /\ cursorLine >= Len(lines) => ret.currentLine = <<>>
            /\ (cursorLine < Len(lines) /\ cursorColumn > Len(lines[cursorLine + 1])) =>
                  /\ ret.currentLine = lines[cursorLine + 1]
                  /\ ret.textBeforeCursor = FullBefore

\* A cursor one line past a document of several non-empty lines.
C21_Witness ==
    /\ Called("analyzeDocument")
    /\ cursorLine = Len(Split(text))
    /\ Len(Split(text)) > 1
    /\ Split(text)[1] # <<>>
    /\ ret.currentLine = <<>>

\* C23: in the "before" window only the cursor's own line is cut at
\* cursorColumn and every other line of the document in it is whole, also
\* when the cursor line is beyond the end of the document, where the window
\* holds no cursor line and so only whole lines.
C23_OnlyCursorLineTruncated ==
    Called("analyzeDocument") =>
        LET lines == Split(text)
            lo == Max(0, cursorLine - 20)
            w == Window(lines, lo, cursorLine)
        IN  IF cursorLine < Len(lines)
            THEN ret.textBeforeCursor =
                     SliceFrom(Join(CutLast(w, Min(cursorColumn, Len(w[Len(w)])))), -1000)
            ELSE ret.textBeforeCursor = FullBefore

(***************************************************************************)
(* The position detector: analyzePosition and the predicates on its        *)
(* result.                                                                 *)
(***************************************************************************)
\* String.prototype.trimEnd
RECURSIVE TrimEnd(_)
TrimEnd(s) ==
    IF s # <<>> /\ s[Len(s)] \in WhiteSpace THEN TrimEnd(SubSeq(s, 1, Len(s) - 1))
    ELSE s

\* String.prototype.endsWith for a string of one character
EndsWith(s, c) == s # <<>> /\ s[Len(s)] = c

\* The alternatives of /^(#{1,6}\s|[-*+]\s|\d+\.\s)/
STRUCTURAL_LINE ==
    <<<<Between("#", 1, 6), One("\\s")>>,
      <<One("[-*+]"), One("\\s")>>,
      <<OneOrMore("\\d"), One("\\."), One("\\s")>>>>

\* The test of a pattern ^ a1 ... an with no $: some prefix of s matches it.
TestPrefix(atoms, s) ==
    \E n \in 0..Len(s) : MatchFrom(atoms, 1, SubSeq(s, 1, n), 1) # Null

\* The test of a pattern ^(A1|A2|...) with no $.
TestAlternatives(alternatives, s) ==
    \E k \in 1..Len(alternatives) : TestPrefix(alternatives[k], s)

\* /^\s*$/.test(lines[i]); an index past the end gives undefined, which
\* the test reads as the text "undefined".
BlankAt(lines, i) == i < Len(lines) /\ Test(PATTERNS.emptyLine, lines[i + 1])

\* The loop that counts the blank lines from line i upwards.
RECURSIVE EmptyLinesFrom(_, _)
EmptyLinesFrom(lines, i) ==
    IF i >= 0 /\ BlankAt(lines, i) THEN 1 + EmptyLinesFrom(lines, i - 1) ELSE 0

analyzePosition(lines, lineNumber, column) ==
    LET line == LineAt(lines, lineNumber)
        textBeforeCursor == Slice(line, 0, column)
    IN  [atEndOfLine |-> column >= Len(TrimEnd(line)),
         isStructuralLine |-> TestAlternatives(STRUCTURAL_LINE, line),
         isEmptyLine |-> Test(PATTERNS.emptyLine, line),
         emptyLinesBefore |-> EmptyLinesFrom(lines, lineNumber - 1),
         afterColon |-> EndsWith(TrimEnd(textBeforeCursor), ":")]

shouldContinueStructure(position) ==
    IF position.afterColon THEN TRUE
    ELSE IF position.isEmptyLine /\ position.emptyLinesBefore = 0 THEN TRUE
    ELSE IF position.isStructuralLine /\ position.atEndOfLine THEN TRUE
    ELSE FALSE

\* shouldFillContent without the test of the end of the line.
shouldFillContentOnStructure(position) ==
    IF ~position.isStructuralLine /\ ~position.isEmptyLine THEN TRUE
    ELSE IF position.isStructuralLine THEN TRUE
    ELSE FALSE

shouldFillContent(position) ==
    IF ~position.isStructuralLine /\ ~position.isEmptyLine THEN TRUE
    ELSE IF position.isStructuralLine /\ ~position.atEndOfLine THEN TRUE
    ELSE FALSE

(***************************************************************************)
(* The inputs of the position detector: a cursor line made of an indent,   *)
(* a marker and what follows it, below some lines, and a cursor on it or   *)
(* past the end of the document.                                           *)
(***************************************************************************)
PositionIndents == {<<>>, Chars("  ")}

PositionMarkers ==
    {<<>>, Chars("-"), Chars("+"), Chars("1."), Chars("12."), Chars("#"),
     Chars("######"), Chars("#######")}

PositionTails ==
    {<<>>, Chars(" "), Chars(" a"), Chars(" a "), Chars("a"), Chars(" a:"),
     Chars(" \r")}

PositionLines ==
    {i \o m \o t : i \in PositionIndents, m \in PositionMarkers, t \in PositionTails}

\* The lines above the cursor line: none, a blank one, prose and two blank.
LinesAbove == {<<>>, <<<<>>>>, <<Chars("a"), <<>>, Chars(" ")>>}

InitPosition ==
    /\ \E above \in LinesAbove, l \in PositionLines :
          /\ text = Join(above \o <<l>>)
          /\ cursorLine \in {Len(above), Len(above) + 2}
          /\ cursorColumn \in 0..(Len(l) + 1)
    /\ customTypes = <<>>
    /\ call = NoCall
    /\ ret = Null
    /\ NoProvider

AnalyzePosition ==
    /\ call = NoCall
    /\ call' = [op |-> "analyzePosition"]
    /\ ret' = analyzePosition(Split(text), cursorLine, cursorColumn)
    /\ UNCHANGED <<text, cursorLine, cursorColumn, customTypes>>
    /\ UNCHANGED providerVars

ShouldContinueStructure ==
    /\ call = NoCall
    /\ call' = [op |-> "shouldContinueStructure",
                position |-> analyzePosition(Split(text), cursorLine, cursorColumn)]
    /\ ret' = shouldContinueStructure(call'.position)
    /\ UNCHANGED <<text, cursorLine, cursorColumn, customTypes>>
    /\ UNCHANGED providerVars

ShouldFillContent ==
    /\ call = NoCall
    /\ call' = [op |-> "shouldFillContent",
                position |-> analyzePosition(Split(text), cursorLine, cursorColumn)]
    /\ ret' = shouldFillContent(call'.position)
    /\ UNCHANGED <<text, cursorLine, cursorColumn, customTypes>>
    /\ UNCHANGED providerVars

NextPosition == AnalyzePosition \/ ShouldContinueStructure \/ ShouldFillContent

SpecPosition == InitPosition /\ [][NextPosition]_vars

\* The cursor's line, '' past the end of the document.
CursorLineText == LineAt(Split(text), cursorLine)

\* l begins with a marker and one white space character: one to six "#",
\* one of - * +, or digits and a dot; the number of characters of the two.
MarkerLengths(l) ==
    {n \in 2..Len(l) :
        /\ l[n] \in WhiteSpace
        /\ \/ n - 1 <= 6 /\ \A j \in 1..(n - 1) : l[j] = "#"
           \/ n = 2 /\ l[1] \in {"-", "*", "+"}
           \/ n >= 3 /\ l[n - 1] = "." /\ \A j \in 1..(n - 2) : l[j] \in Digits}

BeginsWithMarker(l) == MarkerLengths(l) # {}

\* What follows the marker of l and its white space character is not blank.
ContentAfterMarker(l) ==
    \E n \in MarkerLengths(l) : ~IsBlank(SubSeq(l, n + 1, Len(l)))

\* C22, as claimed: shouldFillContent is true exactly when the line is not
\* structural and not blank, or is structural with content after its
\* marker, wherever the cursor is on the line.
C22_FillWhenContentAfterMarker ==
    Called("shouldFillContent") =>
        (ret <=> \/ ~BeginsWithMarker(CursorLineText) /\ ~IsBlank(CursorLineText)
                 \/ BeginsWithMarker(CursorLineText) /\ ContentAfterMarker(CursorLineText))

\* C22, amended: shouldFillContent is true exactly when the line is not
\* structural and not blank, or is structural with the cursor before the
\* end of the line less its trailing white space.
C22_FillWhenCursorBeforeEnd ==
    Called("shouldFillContent") =>
        (ret <=> \/ ~BeginsWithMarker(CursorLineText) /\ ~IsBlank(CursorLineText)
                 \/ /\ BeginsWithMarker(CursorLineText)
                    /\ cursorColumn < Len(TrimEnd(CursorLineText)))

\* The cursor at the end of a list item with text: no content to fill.
C22_Witness ==
    /\ Called("shouldFillContent")
    /\ CursorLineText = Chars("- a")
    /\ cursorColumn = 3
    /\ ret = FALSE

\* C24: isStructuralLine is true for exactly the lines for which
\* extractStructure emits a header, a bullet or a numbered node.
C24_StructuralAsExtracted ==
    (Called("analyzePosition") /\ cursorLine < Len(Split(text))) =>
        LET node == NodeOfLine(CursorLineText, cursorLine)
        IN  ret.isStructuralLine <=>
                (node # Null /\ node[1].type \in {"header", "bullet", "numbered"})

(***************************************************************************)
(* The classifier and the extractor on the cursor line.                    *)
(***************************************************************************)
\* The nodes that extractStructure emits for the cursor line.
NodesOfCursorLine ==
    LET structure == extractStructure(text)
    IN  {structure[k] : k \in {j \in 1..Len(structure) : structure[j].line = cursorLine}}

\* C30: for a cursor line inside the document, a cursorPosition "content"
\* of analyzeDocument comes with a node of extractStructure for that line
\* whose trimmed content is not empty, and a header node, or a bullet or
\* numbered node with empty trimmed content, on the cursor line comes with
\* the cursorPosition "structure".
C30_ClassifierAgreesWithExtractor ==
    (Called("analyzeDocument") /\ cursorLine < Len(Split(text))) =>
        /\ ret.cursorPosition = "content" =>
              \E node \in NodesOfCursorLine : Trim(node.content) # <<>>
        /\ \A node \in NodesOfCursorLine :
              (\/ node.type = "header"
               \/ /\ node.type \in {"bullet", "numbered"}
                  /\ Trim(node.content) = <<>>) =>
                  ret.cursorPosition = "structure"

\* An indented list item with text, where the cursor is in content.
C30_Witness ==
    /\ Called("analyzeDocument")
    /\ cursorLine < Len(Split(text))
    /\ ret.cursorPosition = "content"
    /\ \E node \in NodesOfCursorLine :
          /\ node.type = "numbered"
          /\ node.level = 2
          /\ Trim(node.content) # <<>>

====
